---- MODULE Spec2Model ----
(***************************************************************************)
(* cloud-image-download (cid): one run of the tool is                      *)
(*   crawl    - main() drives one get_images_url_list future per site      *)
(*              through a `buffered(concurrent_downloads)` stream; every   *)
(*              site drives one add_images_from_url_to_images_list future  *)
(*              per leaf url through its own `buffered` stream;            *)
(*   download - download_images() builds the Download batch and hands it   *)
(*              to the trauma Downloader, which returns one Summary each;  *)
(*   verify   - verify_downloaded_file() spawns one task per image that    *)
(*              image_has_been_downloaded() accepts, then awaits the       *)
(*              handles in order and saves the verified images in the      *)
(*              sqlite history.                                            *)
(* Strings are TLA+ strings; a file name is the sequence of its            *)
(* '.'-separated parts, a url the sequence of its '/'-separated segments.  *)
(***************************************************************************)
EXTENDS Integers, Sequences, FiniteSets, TLC

(***************************************************************************)
(* Bounds of the explored configurations.                                  *)
(***************************************************************************)
NSites == 2
MaxVersions == 2
MaxLeafUrls == 3
MaxConcurrency == 2
MaxRuns == 2

\* lib.rs: default number of concurrent requests
CONCURRENT_REQUESTS == 4

Min(a, b) == IF a < b THEN a ELSE b

(***************************************************************************)
(* Dates (chrono::NaiveDateTime) and their two renderings.                 *)
(***************************************************************************)
Pad2(n) == IF n < 10 THEN "0" \o ToString(n) ELSE ToString(n)

\* image_date.format("%Y%m%d")
FormatYmd(date) == ToString(date.y) \o Pad2(date.mo) \o Pad2(date.d)

\* date.format("%Y-%m-%d %H:%M:%S")
FormatDb(date) ==
    ToString(date.y) \o "-" \o Pad2(date.mo) \o "-" \o Pad2(date.d) \o " "
        \o Pad2(date.h) \o ":" \o Pad2(date.mi) \o ":" \o Pad2(date.s)

MkDate(y, mo, d) == [y |-> y, mo |-> mo, d |-> d, h |-> 0, mi |-> 0, s |-> 0]

(***************************************************************************)
(* File names.                                                             *)
(***************************************************************************)
RECURSIVE JoinWith(_, _)
JoinWith(parts, sep) ==
    IF parts = <<>> THEN ""
    ELSE IF Len(parts) = 1 THEN parts[1]
    ELSE parts[1] \o sep \o JoinWith(Tail(parts), sep)

NameStr(parts) == JoinWith(parts, ".")

\* str::rsplit_once('.'): None (<<>>) when the name holds no '.'
RsplitOnceDot(parts) ==
    IF Len(parts) >= 2
    THEN << <<NameStr(SubSeq(parts, 1, Len(parts) - 1)), parts[Len(parts)]>> >>
    ELSE <<>>

\* download.rs get_filename_destination; every path of the model is valid
\* UTF-8, so the result is always Some(filename).
get_filename_destination(image_name, file_destination, normalize, image_date) ==
    LET split == RsplitOnceDot(image_name)
        normalized_image_name ==
            IF normalize /\ split # <<>>
            THEN split[1][1] \o "-" \o FormatYmd(image_date) \o "." \o split[1][2]
            ELSE NameStr(image_name)
    IN  file_destination \o "/" \o normalized_image_name

(***************************************************************************)
(* Checksums.                                                              *)
(***************************************************************************)
NoSum == [kind |-> "None", hash |-> ""]
Sha256(h) == [kind |-> "Sha256", hash |-> h]
Sha512(h) == [kind |-> "Sha512", hash |-> h]

\* impl Display for CheckSums: writeln!, so the text ends with a newline
ChecksumToString(checksum) ==
    IF checksum.kind = "None" THEN "\n" ELSE checksum.hash \o "\n"

\* checksums.rs are_all_checksums_in_one_file, on the parts of a name:
\* a part holding "-CHECKSUM", or exactly CHECKSUM, SHA256SUMS, SHA512SUMS
HoldsDashChecksum(part) == part \in {"Fedora-Cloud-41-x86_64-CHECKSUM"}

are_all_checksums_in_one_file(inner) ==
    \/ \E i \in 1..Len(inner) : HoldsDashChecksum(inner[i])
    \/ inner = <<"CHECKSUM">>
    \/ inner = <<"SHA256SUMS">>
    \/ inner = <<"SHA512SUMS">>

\* website.rs is_a_checksum_file: aggregate file or name ending in
\* .SHA1SUM, .MD5SUM or .SHA256SUM
is_a_checksum_file(inner) ==
    \/ are_all_checksums_in_one_file(inner)
    \/ Len(inner) >= 2 /\ inner[Len(inner)] \in {"SHA1SUM", "MD5SUM", "SHA256SUM"}

\* inner.contains(".SHA256SUM"): a part after a '.' that starts with SHA256SUM
ContainsDotSha256Sum(inner) ==
    \E i \in 2..Len(inner) : inner[i] \in {"SHA256SUM", "SHA256SUMS"}


(***************************************************************************)
(* Checksum files.  A body is a sequence of lines, a line the sequence of  *)
(* its whitespace-separated words.                                         *)
(***************************************************************************)
HashA == "5b1e0f9ca1"
HashB == "c07d33a9e2"
\* the first and the last 64 digits of a digest of 128
HashCHigh == "9f8e7"
HashCLow == "d6c5b"
HashC == HashCHigh \o HashCLow

\* number of lowercase hex digits of a word that is one run of them (0: not hex)
HexLen(word) ==
    CASE word \in {HashA, HashB, HashCHigh, HashCLow} -> 64
      [] word = HashC -> 128
      [] OTHER -> 0

\* the last n digits of a run of n digits or more
LastDigits(word, n) ==
    IF HexLen(word) = n THEN word ELSE HashCLow

\* str::contains on a line or a file name: a word of it is `s`, or `s` in
\* parentheses as the BSD style of sha256sum --tag writes it
Contains(strings, s) ==
    \E i \in 1..Len(strings) : strings[i] = s \/ strings[i] = "(" \o s \o ")"

\* regex .*([a-f0-9]{n}+).* : the greedy prefix leaves to the group the
\* last n digits of the last run of n digits or more
RECURSIVE LastHexRun(_, _)
LastHexRun(line, n) ==
    IF line = <<>> THEN <<>>
    ELSE IF HexLen(line[Len(line)]) >= n THEN <<LastDigits(line[Len(line)], n)>>
    ELSE LastHexRun(SubSeq(line, 1, Len(line) - 1), n)

\* checksums.rs CheckSums::build_checksums_from_line
build_checksums_from_line(line, filename) ==
    IF Contains(filename, "SHA512SUMS") \/ Contains(line, "SHA512")
    THEN IF LastHexRun(line, 128) = <<>> THEN NoSum
         ELSE Sha512(LastHexRun(line, 128)[1])
    ELSE IF Contains(filename, "SHA256SUMS") \/ Contains(line, "SHA256")
    THEN IF LastHexRun(line, 64) = <<>> THEN NoSum
         ELSE Sha256(LastHexRun(line, 64)[1])
    ELSE NoSum

\* the first line that holds the name decides, a comment line included
ScanLines_reads_comments(name, lines, filename) ==
    LET holding == { i \in 1..Len(lines) : Contains(lines[i], name) }
    IN  IF holding = {} THEN NoSum
        ELSE build_checksums_from_line(
                 lines[CHOOSE i \in holding : \A j \in holding : i <= j], filename)

\* checksums.rs CheckSums::get_image_checksum_from_checksums_buffer;
\* `checksums` is an Option: <<>> is None, <<buffer>> is Some(buffer)
RECURSIVE ScanLines(_, _, _)
ScanLines(name, lines, filename) ==
    IF lines = <<>> THEN NoSum
    ELSE LET line == Head(lines) IN
         IF line # <<>> /\ line[1] # "#" /\ Contains(line, name)
         THEN build_checksums_from_line(line, filename)
         ELSE ScanLines(name, Tail(lines), filename)

get_image_checksum_from_checksums_buffer(name, checksums, filename) ==
    IF checksums = <<>> THEN NoSum
    ELSE ScanLines(name, checksums[1], filename)

(***************************************************************************)
(* The upstream mirrors.  Every leaf directory serves one of the listings  *)
(* below; the same upstream is served to every run.                        *)
(***************************************************************************)
Link(inner, date) == [inner |-> inner, date |-> date]

ListingNames == {"down", "aggregate", "bare"}

\* "perfile": every image comes with its own <image>.SHA256SUM file;
\* "nosums": the page lists SHA256SUMS but the request for that file fails
AllListingNames == ListingNames \cup {"perfile", "nosums"}

\* the <a> elements of the directory page; <<>> for "down" (no page at all)
\* "dated", "suffixed", "numeric": pages of sub-directories; "suffixed" is
\* a page sorted newest first
\* "cleanse": names that hold "latest"; "rebuilt": the file with the older
\* date in its name was written last
\* "noline": SHA256SUMS has no line for the image; "nofile": the request
\* for the .SHA256SUM file of the image fails
\* "plainfile": foo.qcow2 and foo.qcow2.SHA256SUM, whose line is the output
\* of sha256sum, the digest and then the name
PageLinks(listing) ==
    CASE listing = "aggregate" ->
            << Link(<<"foo-20240215", "qcow2">>, MkDate(2024, 2, 15)),
               Link(<<"foo-20240101", "qcow2">>, MkDate(2024, 1, 1)),
               Link(<<"SHA256SUMS">>, MkDate(2024, 2, 15)) >>
      [] listing = "bare" ->
            << Link(<<"foo", "qcow2">>, MkDate(2025, 7, 10)) >>
      [] listing = "nosums" ->
            << Link(<<"foo-20240215", "qcow2">>, MkDate(2024, 2, 15)),
               Link(<<"SHA256SUMS">>, MkDate(2024, 2, 15)) >>
      [] listing = "plainfile" ->
            << Link(<<"foo", "qcow2">>, MkDate(2025, 7, 10)),
               Link(<<"foo", "qcow2", "SHA256SUM">>, MkDate(2025, 7, 10)) >>
      [] listing = "cleanse" ->
            << Link(<<"foo", "qcow2">>, MkDate(2025, 7, 10)),
               Link(<<"foo-latest", "qcow2">>, MkDate(2025, 7, 10)),
               Link(<<"latest", "qcow2">>, MkDate(2025, 7, 10)),
               Link(<<"SHA256SUMS">>, MkDate(2025, 7, 10)) >>
      [] listing = "rebuilt" ->
            << Link(<<"foo-20240101", "qcow2">>, MkDate(2024, 12, 1)),
               Link(<<"foo-20240215", "qcow2">>, MkDate(2024, 2, 15)),
               Link(<<"SHA256SUMS">>, MkDate(2024, 12, 1)) >>
      [] listing = "noline" ->
            << Link(<<"foo", "qcow2">>, MkDate(2025, 7, 10)),
               Link(<<"SHA256SUMS">>, MkDate(2025, 7, 10)) >>
      [] listing = "nofile" ->
            << Link(<<"foo", "qcow2">>, MkDate(2025, 7, 10)),
               Link(<<"foo", "qcow2", "SHA256SUM">>, MkDate(2025, 7, 10)) >>
      [] listing = "dated" ->
            << Link(<<"20240101/">>, MkDate(2024, 1, 1)),
               Link(<<"20240215/">>, MkDate(2024, 2, 15)),
               Link(<<"latest/">>, MkDate(2024, 2, 15)) >>
      [] listing = "suffixed" ->
            << Link(<<"20240215-0001/">>, MkDate(2024, 2, 16)),
               Link(<<"20240215/">>, MkDate(2024, 2, 15)),
               Link(<<"20240101/">>, MkDate(2024, 1, 1)) >>
      [] listing = "numeric" ->
            << Link(<<"10/">>, MkDate(2024, 1, 1)),
               Link(<<"12/">>, MkDate(2024, 2, 15)) >>
      [] listing = "perfile" ->
            << Link(<<"foo-20240215", "qcow2">>, MkDate(2024, 2, 15)),
               Link(<<"foo-20240215", "qcow2", "SHA256SUM">>, MkDate(2024, 2, 15)),
               Link(<<"foo-20240101", "qcow2">>, MkDate(2024, 1, 1)),
               Link(<<"foo-20240101", "qcow2", "SHA256SUM">>, MkDate(2024, 1, 1)) >>
      [] OTHER -> <<>>

\* the text files of the directory, by name
FileBody(listing, filename) ==
    CASE listing \in {"aggregate", "rebuilt"} /\ filename = "SHA256SUMS" ->
            << << <<"#", "sha256">>,
                  <<HashA, "foo-20240101.qcow2">>,
                  <<HashB, "foo-20240215.qcow2">> >> >>
      [] listing = "plainfile" /\ filename = "foo.qcow2.SHA256SUM" ->
            << << <<HashA, "foo.qcow2">> >> >>
      [] listing = "noline" /\ filename = "SHA256SUMS" ->
            << << <<"#", "foo.qcow2">>,
                  <<HashA, "foo-20240101.qcow2">> >> >>
      [] listing = "cleanse" /\ filename = "SHA256SUMS" ->
            << << <<HashA, "foo.qcow2">>,
                  <<HashB, "foo-latest.qcow2">>,
                  <<HashB, "latest.qcow2">> >> >>
      [] listing = "perfile" /\ filename = "foo-20240101.qcow2.SHA256SUM" ->
            << << <<"SHA256", "(foo-20240101.qcow2)", "=", HashA>> >> >>
      [] listing = "perfile" /\ filename = "foo-20240215.qcow2.SHA256SUM" ->
            << << <<"SHA256", "(foo-20240215.qcow2)", "=", HashB>> >> >>
      [] OTHER -> <<>>


(***************************************************************************)
(* Regular expressions of the model, by what they match.                   *)
(***************************************************************************)
\* Regex::is_match on the name `inner` for the patterns the sites use
RegexIsMatch(pattern, inner) ==
    CASE pattern = "\\.qcow2$" -> Len(inner) >= 2 /\ inner[Len(inner)] = "qcow2"
      [] pattern = "latest" -> \E i \in 1..Len(inner) : inner[i] \in {"foo-latest", "latest"}
      [] OTHER -> FALSE

\* website.rs filter_dates: \d{8}(?:-\d{4})?/$
filter_dates(inner) ==
    Len(inner) = 1 /\ inner[1] \in {"20240101/", "20240215/", "20240215-0001/"}

\* date_slash.replace("/", "")
StripSlash(dir) ==
    CASE dir = "20240101/" -> "20240101"
      [] dir = "20240215/" -> "20240215"
      [] dir = "20240215-0001/" -> "20240215-0001"
      [] dir = "10/" -> "10"
      [] dir = "12/" -> "12"
      [] OTHER -> dir

\* image_list.rs get_date_from_string on one url segment:
\* the first match of [2][0-9]{3}[0-1][0-9][0-3][0-9], <<>> when there is none
SegmentDate(segment) ==
    CASE segment \in {"20240101", "foo-20240101.qcow2"} -> <<20240101>>
      [] segment \in {"20240215", "20240215-0001", "foo-20240215.qcow2"} -> <<20240215>>
      [] OTHER -> <<>>

RECURSIVE get_date_from_string(_)
get_date_from_string(url) ==
    IF url = <<>> THEN <<>>
    ELSE IF SegmentDate(Head(url)) # <<>> THEN SegmentDate(Head(url))
    ELSE get_date_from_string(Tail(url))

\* byte order of the strings of the model ('-' sorts before '.', digits before letters)
LexOrder ==
    << "10", "12", "20240101", "20240215", "20240215-0001", "41", "42", "43", "44",
       "foo-20240101.qcow2", "foo-20240215.qcow2", "foo-latest.qcow2", "foo.qcow2",
       "https://mirror1.example", "https://mirror2.example",
       "https://mirror3.example", "https://mirror4.example", "latest.qcow2" >>

LexRank(str) == CHOOSE i \in 1..Len(LexOrder) : LexOrder[i] = str

\* str::cmp of two urls: "Less", "Equal" or "Greater"
RECURSIVE StrCmp(_, _)
StrCmp(a, b) ==
    CASE a = <<>> /\ b = <<>> -> "Equal"
      [] a = <<>> /\ b # <<>> -> "Less"
      [] a # <<>> /\ b = <<>> -> "Greater"
      [] OTHER ->
            IF Head(a) = Head(b) THEN StrCmp(Tail(a), Tail(b))
            ELSE IF LexRank(Head(a)) < LexRank(Head(b)) THEN "Less" ELSE "Greater"

\* image_list.rs compare_str_by_date
compare_str_by_date(a, b) ==
    LET date1 == get_date_from_string(a)
        date2 == get_date_from_string(b)
    IN  CASE date1 # <<>> /\ date2 # <<>> ->
                IF date1[1] < date2[1] THEN "Less"
                ELSE IF date1[1] > date2[1] THEN "Greater" ELSE "Equal"
          [] date1 = <<>> /\ date2 # <<>> -> "Less"
          [] date1 # <<>> /\ date2 = <<>> -> "Greater"
          [] OTHER -> StrCmp(a, b)

(***************************************************************************)
(* ImageList.                                                              *)
(***************************************************************************)
\* CloudImage::new
CloudImage(url, checksum, name, date) ==
    [url |-> url, name |-> name, checksum |-> checksum, date |-> date]

\* Vec::sort_by is stable: an element goes behind the elements not greater
RECURSIVE InsertSorted(_, _)
InsertSorted(sorted, image) ==
    IF sorted = <<>> THEN <<image>>
    ELSE IF compare_str_by_date(image.url, Head(sorted).url) = "Less"
    THEN <<image>> \o sorted
    ELSE <<Head(sorted)>> \o InsertSorted(Tail(sorted), image)

\* image_list.rs ImageList::sort_by_date
RECURSIVE sort_by_date(_)
sort_by_date(list) ==
    IF list = <<>> THEN <<>>
    ELSE InsertSorted(sort_by_date(SubSeq(list, 1, Len(list) - 1)), list[Len(list)])

\* mutant: the list is returned whole
only_keep_last_element_keeps_all(list) == list

\* image_list.rs ImageList::only_keep_last_element
only_keep_last_element(list) ==
    IF Len(list) >= 1 THEN <<list[Len(list)]>> ELSE list


(***************************************************************************)
(* State.                                                                  *)
(***************************************************************************)
VARIABLES
    concurrent_downloads,   \* cli.concurrent_downloads
    verify_skipped,         \* cli.verify_skipped
    sites,                  \* settings.sites
    upstream,               \* version url -> the listing its mirror serves
    unwritable,             \* destinations create_dir_all() cannot create
    db,                     \* the table cid_images: its rows <<name, checksum, date>>
                            \* in the order of their INSERT
    db_at_start,            \* the rows of db when the current run started
    run,                    \* number of the current run
    pc,                     \* position of main()
    site_future,            \* per site: state of its get_images_url_list future
    url_list,               \* per site: result of generate_url_list
    leaf_future,            \* per site, per leaf url: state of its future
    leaf_lists,             \* per site, per leaf url: the ImageList it returned
    all_ws_image_lists,     \* the collected WSImageList of every site
    download_image_list,    \* the batch of Download items
    downloader_max,         \* concurrent_downloads() of the Downloader, 0 before it is built
    downloaded_summary,     \* Vec<Summary>
    join_handle_list,       \* the spawned verification tasks
    joined,                 \* number of handles main() has awaited
    query_log,              \* is_image_in_db calls of the run
    insert_log,             \* save_image_in_db calls of the run
    saved_before,           \* rows save_image_in_db was called with in earlier runs
    call                    \* a function called on its own: its arguments and result

vars == << concurrent_downloads, verify_skipped, sites, upstream, unwritable, db,
           db_at_start, run, pc, site_future, url_list, leaf_future, leaf_lists,
           all_ws_image_lists, download_image_list, downloader_max,
           downloaded_summary, join_handle_list, joined, query_log, insert_log,
           saved_before, call >>

config == << concurrent_downloads, verify_skipped, sites, upstream, saved_before, call >>

NoCall == [op |-> "none"]

SiteIds == 1..NSites

(***************************************************************************)
(* HistoryStore (image_history.rs).                                        *)
(***************************************************************************)
\* the values bound to ?1, ?2, ?3 by is_image_in_db and save_image_in_db
RowOf(cloud_image) ==
    << NameStr(cloud_image.name), ChecksumToString(cloud_image.checksum),
       FormatDb(cloud_image.date) >>

\* the set of the rows of the table
TableRows(rows) == { rows[i] : i \in 1..Len(rows) }

\* a failure of prepare(), of query() or of rows.next(), or none of them
QueryErrors == {"none", "prepare", "query", "next"}

\* mutant: a query that fails answers that the image is there
is_image_in_db_found_on_error(rows, cloud_image, query_error) ==
    IF query_error # "none" THEN <<"Ok", TRUE>>
    ELSE <<"Ok", RowOf(cloud_image) \in TableRows(rows)>>

\* DbImageHistory::is_image_in_db: <<"Err">> is Err(e), <<"Ok", b>> is Ok(b).
\* A row the SELECT returns has the three values asked for, so the
\* comparison of the first row is true.
is_image_in_db(rows, cloud_image, query_error) ==
    IF query_error = "prepare" \/ query_error = "next" THEN <<"Err">>
    ELSE IF query_error = "query" THEN <<"Ok", FALSE>>
    ELSE <<"Ok", RowOf(cloud_image) \in TableRows(rows)>>

\* mutant: the answer of the database is dropped
is_in_db_always_absent(rows, cloud_image, query_error) == FALSE

\* CloudImage::is_in_db: unwrap_or_default()
is_in_db(rows, cloud_image, query_error) ==
    LET res == is_image_in_db(rows, cloud_image, query_error)
    IN  IF res[1] = "Err" THEN FALSE ELSE res[2]

\* mutant: the INSERT is never executed
save_image_in_db_forgets(rows, cloud_image) == rows

\* conn.execute of the INSERT: the unique index index_ncd that
\* create_db_image_history puts on (name, checksum, date) makes the INSERT
\* of a row that is present fail; <<"Err">> is Err(e), <<"Ok", t>> is Ok(1)
\* with the table it leaves
ExecuteInsert(rows, row) ==
    IF row \in TableRows(rows) THEN <<"Err">> ELSE <<"Ok", Append(rows, row)>>

\* mutant: the table has no unique index
save_image_in_db_no_index(rows, cloud_image) == Append(rows, RowOf(cloud_image))

\* DbImageHistory::save_image_in_db: an Err of the INSERT is only logged
save_image_in_db(rows, cloud_image) ==
    LET res == ExecuteInsert(rows, RowOf(cloud_image))
    IN  IF res[1] = "Err" THEN rows ELSE res[2]

(***************************************************************************)
(* HTTP.                                                                   *)
(***************************************************************************)
\* website.rs get_body_from_url: <<>> is None.  A directory page is the
\* sequence of its links, a checksum file the sequence of its lines.
get_body_from_url(url) ==
    IF url \in DOMAIN upstream
    THEN IF upstream[url] = "down" THEN <<>> ELSE <<PageLinks(upstream[url])>>
    ELSE IF Len(url) >= 2 /\ SubSeq(url, 1, Len(url) - 1) \in DOMAIN upstream
    THEN FileBody(upstream[SubSeq(url, 1, Len(url) - 1)], url[Len(url)])
    ELSE <<>>

\* reqwest::Url::parse of the urls of the model: an absolute url parses
UrlParses(url) ==
    url # <<>> /\ url[1] \in {"https://mirror1.example", "https://mirror2.example",
                              "https://mirror3.example", "https://mirror4.example"}

(***************************************************************************)
(* WebSite (website.rs).                                                   *)
(***************************************************************************)
\* get_list_of_dates: the dated sub-directories of `url`, sorted, last kept
RECURSIVE SortNames(_)
InsertName(sorted, name) ==
    LET before == SelectSeq(sorted, LAMBDA x : compare_str_by_date(<<name>>, <<x>>) # "Less")
        after == SelectSeq(sorted, LAMBDA x : compare_str_by_date(<<name>>, <<x>>) = "Less")
    IN  before \o <<name>> \o after
SortNames(names) ==
    IF names = <<>> THEN <<>>
    ELSE InsertName(SortNames(SubSeq(names, 1, Len(names) - 1)), names[Len(names)])

get_list_of_dates(url) ==
    LET body == get_body_from_url(url)
        dates_slash_list ==
            IF body = <<>> THEN <<>>
            ELSE SelectSeq(body[1], LAMBDA link : filter_dates(link.inner))
        dates_list ==
            SortNames([i \in 1..Len(dates_slash_list) |->
                          StripSlash(dates_slash_list[i].inner[1])])
    IN  IF Len(dates_list) >= 1 THEN <<dates_list[Len(dates_list)]>> ELSE dates_list

RECURSIVE Flatten(_)
Flatten(seqs) == IF seqs = <<>> THEN <<>> ELSE Head(seqs) \o Flatten(Tail(seqs))

\* WebSite::generate_url_list; after_version_url is an Option: <<>> is None
generate_url_list(website) ==
    LET version_urls(version) ==
            IF website.after_version_url # <<>>
            THEN [k \in 1..Len(website.after_version_url[1]) |->
                     <<website.base_url, version, website.after_version_url[1][k]>>]
            ELSE << <<website.base_url, version>> >>
        first_url_list ==
            Flatten([v \in 1..Len(website.version_list) |->
                        version_urls(website.version_list[v])])
        dated(url) ==
            LET list_of_dates == get_list_of_dates(url)
            IN  IF list_of_dates = <<>> THEN <<url>>
                ELSE [d \in 1..Len(list_of_dates) |-> url \o <<list_of_dates[d]>>]
    IN  Flatten([u \in 1..Len(first_url_list) |-> dated(first_url_list[u])])

\* the cleanse expressions are not applied
filter_element_no_cleanse(website, inner) ==
    RegexIsMatch(website.image_name_filter, inner) /\ ~is_a_checksum_file(inner)

\* WebSite::filter_element; image_name_cleanse is an Option: <<>> is None
filter_element(website, inner) ==
    LET is_filtered ==
            RegexIsMatch(website.image_name_filter, inner) /\ ~is_a_checksum_file(inner)
        cleaned ==
            /\ website.image_name_cleanse # <<>>
            /\ \E c \in 1..Len(website.image_name_cleanse[1]) :
                   RegexIsMatch(website.image_name_cleanse[1][c], inner)
    IN  is_filtered /\ ~cleaned

\* one file is chosen as soon as the page lists one or more
guess_checksum_type_some_onefile(document) ==
    LET everyfile == Len(SelectSeq(document, LAMBDA l : ContainsDotSha256Sum(l.inner)))
        onefiles == SelectSeq(document, LAMBDA l : are_all_checksums_in_one_file(l.inner))
    IN  IF Len(onefiles) >= 1
        THEN [type |-> "OneFile", filename |-> onefiles[Len(onefiles)].inner]
        ELSE IF everyfile >= 1
        THEN [type |-> "EveryFile", filename |-> <<>>]
        ELSE [type |-> "Unknown", filename |-> <<>>]

\* WebSite::guess_checksum_type
guess_checksum_type(document) ==
    LET everyfile == Len(SelectSeq(document, LAMBDA l : ContainsDotSha256Sum(l.inner)))
        onefiles == SelectSeq(document, LAMBDA l : are_all_checksums_in_one_file(l.inner))
    IN  IF Len(onefiles) = 1
        THEN [type |-> "OneFile", filename |-> onefiles[Len(onefiles)].inner]
        ELSE IF everyfile >= 1
        THEN [type |-> "EveryFile", filename |-> <<>>]
        ELSE [type |-> "Unknown", filename |-> <<>>]

\* the images pushed by the three arms of the match on guess_checksum_type
ImagesOfDocument(website, url, document) ==
    LET image_list == SelectSeq(document, LAMBDA l : filter_element(website, l.inner))
        guess == guess_checksum_type(document)
        image(link) ==
            LET image_name == NameStr(link.inner)
                image_url == url \o <<image_name>>
            IN  CASE guess.type = "OneFile" ->
                        CloudImage(image_url,
                            get_image_checksum_from_checksums_buffer(image_name,
                                get_body_from_url(url \o <<NameStr(guess.filename)>>),
                                guess.filename),
                            link.inner, link.date)
                  [] guess.type = "EveryFile" ->
                        CloudImage(image_url,
                            get_image_checksum_from_checksums_buffer(image_name,
                                get_body_from_url(url \o <<image_name \o ".SHA256SUM">>),
                                image_url),
                            link.inner, link.date)
                  [] OTHER -> CloudImage(image_url, NoSum, link.inner, link.date)
    IN  [i \in 1..Len(image_list) |-> image(image_list[i])]

\* the urls add_images_from_url_to_images_list gives to get_body_from_url
RequestsOfUrl(website, url) ==
    LET body == get_body_from_url(url)
        image_list == SelectSeq(body[1], LAMBDA l : filter_element(website, l.inner))
        guess == guess_checksum_type(body[1])
    IN  IF body = <<>> THEN <<url>>
        ELSE CASE guess.type = "OneFile" -> <<url, url \o <<NameStr(guess.filename)>>>>
               [] guess.type = "EveryFile" ->
                     <<url>> \o [i \in 1..Len(image_list) |->
                                   url \o <<NameStr(image_list[i].inner) \o ".SHA256SUM">>]
               [] OTHER -> <<url>>

\* a leaf whose image has no checksum although the page has checksum files
\* is abandoned
CandidatesOfUrl_abandons(website, url) ==
    LET body == get_body_from_url(url)
        images_url_list == IF body = <<>> THEN <<>> ELSE ImagesOfDocument(website, url, body[1])
        kept == only_keep_last_element(sort_by_date(images_url_list))
    IN  IF /\ kept # <<>>
           /\ kept[1].checksum = NoSum
           /\ guess_checksum_type(body[1]).type # "Unknown"
        THEN <<>>
        ELSE kept

\* the list before it is tested against the database
CandidatesOfUrl(website, url) ==
    LET body == get_body_from_url(url)
        images_url_list == IF body = <<>> THEN <<>> ELSE ImagesOfDocument(website, url, body[1])
    IN  only_keep_last_element(sort_by_date(images_url_list))

\* WebSite::add_images_from_url_to_images_list
add_images_from_url_to_images_list(website, url, rows, query_error) ==
    LET images_url_list == CandidatesOfUrl(website, url)
    IN  IF images_url_list # <<>> /\ is_in_db(rows, images_url_list[1], query_error)
        THEN <<>>
        ELSE images_url_list

\* mutant: one site without image makes the whole run empty
vec_ws_image_lists_is_empty_any(ws_lists) ==
    \E i \in 1..Len(ws_lists) : ws_lists[i].images_list = <<>>

\* website.rs vec_ws_image_lists_is_empty
vec_ws_image_lists_is_empty(ws_lists) ==
    \A i \in 1..Len(ws_lists) : ws_lists[i].images_list = <<>>


(***************************************************************************)
(* Download and verification (download.rs, cloud_image.rs).                *)
(***************************************************************************)
Statuses == {"Success", "Fail", "Skipped", "NotStarted"}

Download(url, filename) == [url |-> url, filename |-> filename]

\* create_dir_if_needed: Ok (TRUE) unless create_dir_all() fails
\* the result of create_dir_all is not looked at
create_dir_if_needed_unchecked(path, bad_dirs) == TRUE

create_dir_if_needed(path, bad_dirs) == path \notin bad_dirs

\* the loop of download_images that builds download_image_list
DownloadsOfSite(ws_image, bad_dirs) ==
    LET website == sites[ws_image.website]
        item(cloud_image) ==
            IF /\ create_dir_if_needed(website.destination, bad_dirs)
               /\ UrlParses(cloud_image.url)
            THEN << Download(cloud_image.url,
                        get_filename_destination(cloud_image.name, website.destination,
                            website.normalize, cloud_image.date)) >>
            ELSE <<>>
    IN  Flatten([i \in 1..Len(ws_image.images_list) |-> item(ws_image.images_list[i])])

BuildDownloadList(ws_lists, bad_dirs) ==
    Flatten([w \in 1..Len(ws_lists) |-> DownloadsOfSite(ws_lists[w], bad_dirs)])

\* download_images: the maximum simultaneous downloads given to the builder
DownloaderMax(concurrent_download) ==
    IF concurrent_download > 0 THEN concurrent_download ELSE CONCURRENT_REQUESTS

\* mutant: a skipped download always counts as downloaded
image_has_been_downloaded_or_skipped(summaries, cloud_image, destination, skipped_too, normalize) ==
    LET filename == get_filename_destination(cloud_image.name, destination,
                        normalize, cloud_image.date)
        matching == SelectSeq(summaries, LAMBDA summary :
                        /\ summary.download.filename = filename
                        /\ summary.download.url = cloud_image.url)
    IN  /\ UrlParses(cloud_image.url)
        /\ matching # <<>>
        /\ matching[1].status \in {"Success", "Skipped"}

\* any successful Summary of the batch counts for the image
image_has_been_downloaded_any_summary(summaries, cloud_image, destination, skipped_too, normalize) ==
    \E i \in 1..Len(summaries) : summaries[i].status = "Success"

\* download.rs image_has_been_downloaded: the first Summary whose filename
\* and url are the image's decides
RECURSIVE image_has_been_downloaded(_, _, _, _, _)
image_has_been_downloaded(summaries, cloud_image, destination, skipped_too, normalize) ==
    IF summaries = <<>> THEN FALSE
    ELSE LET summary == Head(summaries)
             filename == get_filename_destination(cloud_image.name, destination,
                             normalize, cloud_image.date)
         IN  IF /\ UrlParses(cloud_image.url)
                /\ summary.download.filename = filename
                /\ summary.download.url = cloud_image.url
             THEN CASE summary.status = "Success" -> TRUE
                    [] summary.status = "Skipped" -> skipped_too
                    [] OTHER -> FALSE
             ELSE image_has_been_downloaded(Tail(summaries), cloud_image, destination,
                      skipped_too, normalize)

\* what a verification task finds at the destination path: the file cannot
\* be opened, cannot be read, or has the given digest
FileReads == {"open_error", "read_error", HashA, HashB}

\* cloud_image.rs verify_file: <<"Err">> is Err(e), <<"Ok">> is Ok(None),
\* <<"Ok", b>> is Ok(Some(b))
verify_file(read, checksum) ==
    IF read = "open_error" THEN <<"Err">>
    ELSE IF checksum.kind = "None" THEN <<"Ok">>
    ELSE IF read = "read_error" THEN <<"Err">>
    ELSE <<"Ok", read = checksum.hash>>

\* mutant: the result of verify_file is not looked at
verify_ignores_result(cloud_image, read) == TRUE

\* CloudImage::verify
verify(cloud_image, read) ==
    LET no_error == verify_file(read, cloud_image.checksum)
    IN  CASE no_error[1] = "Err" -> FALSE
          [] Len(no_error) = 1 -> TRUE
          [] OTHER -> no_error[2]

\* mutant: one task per Summary of the image's file name, whatever its url
ScheduledOfSite_per_summary(ws_image, summaries, skipped_too) ==
    LET website == sites[ws_image.website]
        filename(cloud_image) ==
            get_filename_destination(cloud_image.name, website.destination,
                website.normalize, cloud_image.date)
        tasks(cloud_image) ==
            LET matching == SelectSeq(summaries, LAMBDA summary :
                                /\ summary.download.filename = filename(cloud_image)
                                /\ \/ summary.status = "Success"
                                   \/ summary.status = "Skipped" /\ skipped_too)
            IN  [m \in 1..Len(matching) |-> cloud_image]
    IN  Flatten([i \in 1..Len(ws_image.images_list) |-> tasks(ws_image.images_list[i])])

\* the images verify_downloaded_file spawns a task for, in spawn order
ScheduledOfSite(ws_image, summaries, skipped_too) ==
    LET website == sites[ws_image.website]
    IN  SelectSeq(ws_image.images_list,
            LAMBDA cloud_image :
                image_has_been_downloaded(summaries, cloud_image, website.destination,
                    skipped_too, website.normalize))

\* a JoinHandle: the task, the Result its verify_file call returned and the
\* Option<CloudImage> the task returns
Task(w, cloud_image) ==
    [website |-> w, cloud_image |-> cloud_image, state |-> "spawned",
     verified |-> <<>>, output |-> <<>>]

SpawnedTasks(ws_lists, summaries, skipped_too) ==
    Flatten([w \in 1..Len(ws_lists) |->
        LET scheduled == ScheduledOfSite(ws_lists[w], summaries, skipped_too)
        IN  [i \in 1..Len(scheduled) |-> Task(ws_lists[w].website, scheduled[i])]])


(***************************************************************************)
(* Configurations and initial state.                                       *)
(***************************************************************************)
Destination(s) == IF s % 2 = 1 THEN "/srv/images" ELSE "/srv/other"

Mirror(s) == "https://mirror" \o ToString(s) \o ".example"

\* a [[sites]] table of the configuration file
WebSite(s, versions) ==
    [ name |-> "site" \o ToString(s),
      version_list |-> [v \in 1..versions |-> ToString(40 + v)],
      base_url |-> Mirror(s),
      after_version_url |-> <<>>,
      image_name_filter |-> "\\.qcow2$",
      image_name_cleanse |-> <<>>,
      destination |-> Destination(s),
      normalize |-> (s % 2 = 0) ]

RECURSIVE SumTo(_, _)
SumTo(f, n) == IF n = 0 THEN 0 ELSE f[n] + SumTo(f, n - 1)

\* the state main() and the tasks of a run start from
RunStart ==
    /\ pc = "crawl"
    /\ site_future = [s \in SiteIds |-> "queued"]
    /\ url_list = [s \in SiteIds |-> <<>>]
    /\ leaf_future = [s \in SiteIds |-> <<>>]
    /\ leaf_lists = [s \in SiteIds |-> <<>>]
    /\ all_ws_image_lists = <<>>
    /\ download_image_list = <<>>
    /\ downloader_max = 0
    /\ downloaded_summary = <<>>
    /\ join_handle_list = <<>>
    /\ joined = 0
    /\ query_log = {}
    /\ insert_log = {}
    /\ unwritable = {}

Init ==
    /\ concurrent_downloads \in 0..MaxConcurrency
    /\ verify_skipped \in BOOLEAN
    /\ \E versions \in [SiteIds -> 1..MaxVersions] :
          /\ SumTo(versions, NSites) <= MaxLeafUrls
          /\ sites = [s \in SiteIds |-> WebSite(s, versions[s])]
    /\ upstream \in [UNION { { <<sites[s].base_url, sites[s].version_list[v]>> :
                                v \in 1..Len(sites[s].version_list) } : s \in SiteIds }
                     -> ListingNames]
    /\ db = <<>>
    /\ db_at_start = {}
    /\ saved_before = {}
    /\ run = 1
    /\ call = NoCall
    /\ RunStart


(***************************************************************************)
(* futures::stream::Buffered over an ordered list of futures: a future is  *)
(* started in list order while fewer than `max` are in the queue, and it   *)
(* leaves the queue when it and every future before it have completed.     *)
(***************************************************************************)
RECURSIVE Yielded(_)
Yielded(futures) ==
    IF futures = <<>> \/ Head(futures) # "complete" THEN 0
    ELSE 1 + Yielded(Tail(futures))

Started(futures) == Len(SelectSeq(futures, LAMBDA f : f # "queued"))

InFlight(futures) == Len(SelectSeq(futures, LAMBDA f : f \notin {"queued", "complete"}))

\* mutant: every future of the stream is started at once
BufferedCanStart_unbounded(futures, i, max) ==
    /\ futures[i] = "queued"
    /\ \A j \in 1..(i - 1) : futures[j] # "queued"

\* .buffered(max): may the i-th future be pulled from the stream and started
BufferedCanStart(futures, i, max) ==
    /\ futures[i] = "queued"
    /\ \A j \in 1..(i - 1) : futures[j] # "queued"
    /\ Started(futures) - Yielded(futures) < max

\* mutant: the stream is left at its first item
CollectReady_first(futures) == Yielded(futures) >= Min(1, Len(futures))

\* .collect::<Vec<_>>().await returns when the stream has yielded everything
\* collect returns without waiting for the futures of the stream
CollectReady_at_once(futures) == TRUE

CollectReady(futures) == Yielded(futures) = Len(futures)

SiteFutures == [s \in SiteIds |-> site_future[s]]

(***************************************************************************)
(* Crawling: main() and WSImageList::get_images_url_list.                  *)
(***************************************************************************)
crawl_vars == << site_future, url_list, leaf_future, leaf_lists >>
later_vars == << all_ws_image_lists, download_image_list, downloader_max,
                 downloaded_summary, join_handle_list, joined, insert_log,
                 unwritable >>

\* main(): the sites stream starts the future of site s
StartSite(s) ==
    /\ pc = "crawl"
    /\ BufferedCanStart(SiteFutures, s, concurrent_downloads)
    /\ site_future' = [site_future EXCEPT ![s] = "generate_url_list"]
    /\ UNCHANGED << config, db, db_at_start, run, pc, url_list, leaf_future,
                    leaf_lists, later_vars, query_log >>

\* get_images_url_list: website.generate_url_list().await
GenerateUrlList(s) ==
    /\ pc = "crawl"
    /\ site_future[s] = "generate_url_list"
    /\ LET urls == generate_url_list(sites[s])
       IN  /\ url_list' = [url_list EXCEPT ![s] = urls]
           /\ leaf_future' = [leaf_future EXCEPT ![s] = [i \in 1..Len(urls) |-> "queued"]]
           /\ leaf_lists' = [leaf_lists EXCEPT ![s] = [i \in 1..Len(urls) |-> <<>>]]
    /\ site_future' = [site_future EXCEPT ![s] = "resolving"]
    /\ UNCHANGED << config, db, db_at_start, run, pc, later_vars, query_log >>

\* get_images_url_list: the urls stream starts the future of leaf url i
StartLeaf(s, i) ==
    /\ pc = "crawl"
    /\ site_future[s] = "resolving"
    /\ i \in 1..Len(leaf_future[s])
    /\ BufferedCanStart(leaf_future[s], i, concurrent_downloads)
    /\ leaf_future' = [leaf_future EXCEPT ![s][i] = "running"]
    /\ UNCHANGED << config, db, db_at_start, run, pc, site_future, url_list,
                    leaf_lists, later_vars, query_log >>

\* add_images_from_url_to_images_list returns for leaf url i
FinishLeaf(s, i) ==
    /\ pc = "crawl"
    /\ site_future[s] = "resolving"
    /\ i \in 1..Len(leaf_future[s])
    /\ leaf_future[s][i] = "running"
    /\ \E query_error \in QueryErrors,
          candidates \in { CandidatesOfUrl(sites[s], url_list[s][i]) } :
          LET images == add_images_from_url_to_images_list(sites[s], url_list[s][i],
                            db, query_error)
          IN  /\ leaf_lists' = [leaf_lists EXCEPT ![s][i] = images]
              /\ query_log' =
                    IF candidates = <<>> THEN query_log
                    ELSE query_log \cup
                         { [ cloud_image |-> candidates[1],
                             answer |-> is_in_db(db, candidates[1], query_error),
                             present |-> RowOf(candidates[1]) \in TableRows(db),
                             failed |-> /\ RowOf(candidates[1]) \in TableRows(db)
                                        /\ query_error # "none" ] }
    /\ leaf_future' = [leaf_future EXCEPT ![s][i] = "complete"]
    /\ UNCHANGED << config, db, db_at_start, run, pc, site_future, url_list, later_vars >>

\* get_images_url_list returns the WSImageList of site s
FinishSite(s) ==
    /\ pc = "crawl"
    /\ site_future[s] = "resolving"
    /\ CollectReady(leaf_future[s])
    /\ site_future' = [site_future EXCEPT ![s] = "complete"]
    /\ UNCHANGED << config, db, db_at_start, run, pc, url_list, leaf_future,
                    leaf_lists, later_vars, query_log >>

\* main(): ws_image_list.collect().await, then the test "Nothing to do"
Collect ==
    /\ pc = "crawl"
    /\ CollectReady(SiteFutures)
    /\ LET lists == [s \in SiteIds |->
                        [website |-> s, images_list |-> Flatten(leaf_lists[s])]]
       IN  /\ all_ws_image_lists' = lists
           /\ pc' = IF vec_ws_image_lists_is_empty(lists) THEN "done" ELSE "download"
    /\ UNCHANGED << config, db, db_at_start, run, crawl_vars, download_image_list,
                    downloader_max, downloaded_summary, join_handle_list, joined,
                    insert_log, unwritable, query_log >>

(***************************************************************************)
(* Downloading: download_images and the trauma Downloader.                 *)
(***************************************************************************)
\* download_images up to downloader.download(&download_image_list)
DownloadImages ==
    /\ pc = "download"
    /\ \E bad_dirs \in SUBSET { sites[s].destination : s \in SiteIds } :
          /\ unwritable' = bad_dirs
          /\ download_image_list' = BuildDownloadList(all_ws_image_lists, bad_dirs)
    /\ downloader_max' = DownloaderMax(concurrent_downloads)
    /\ pc' = "downloading"
    /\ UNCHANGED << config, db, db_at_start, run, crawl_vars, all_ws_image_lists,
                    downloaded_summary, join_handle_list, joined, insert_log, query_log >>

\* the Downloader ends one download and records its Summary
DownloadOne ==
    /\ pc = "downloading"
    /\ Len(downloaded_summary) < Len(download_image_list)
    /\ \E status \in Statuses :
          downloaded_summary' = Append(downloaded_summary,
              [ download |-> download_image_list[Len(downloaded_summary) + 1],
                status |-> status ])
    /\ UNCHANGED << config, unwritable, db, db_at_start, run, pc, crawl_vars, all_ws_image_lists,
                    download_image_list, downloader_max, join_handle_list, joined,
                    insert_log, query_log >>

\* downloader.download().await returns when every item has its Summary
DownloaderReturned == Len(downloaded_summary) = Len(download_image_list)

(***************************************************************************)
(* Verifying: verify_downloaded_file.                                      *)
(***************************************************************************)
\* the first loop: one task::spawn per image that has been downloaded
SpawnVerifications ==
    /\ pc = "downloading"
    /\ DownloaderReturned
    /\ join_handle_list' = SpawnedTasks(all_ws_image_lists, downloaded_summary,
                               verify_skipped)
    /\ pc' = "verify"
    /\ UNCHANGED << config, unwritable, db, db_at_start, run, crawl_vars, all_ws_image_lists,
                    download_image_list, downloader_max, downloaded_summary, joined,
                    insert_log, query_log >>

\* the body of a spawned task: cloud_image.verify()
RunTask(k) ==
    /\ pc = "verify"
    /\ k \in 1..Len(join_handle_list)
    /\ join_handle_list[k].state = "spawned"
    /\ \E read \in FileReads :
          LET task == join_handle_list[k]
          IN  join_handle_list' = [join_handle_list EXCEPT ![k] =
                  [ task EXCEPT !.state = "finished",
                                !.verified = verify_file(read, task.cloud_image.checksum),
                                !.output = IF verify(task.cloud_image, read)
                                           THEN <<task.cloud_image>> ELSE <<>> ]]
    /\ UNCHANGED << config, unwritable, db, db_at_start, run, pc, crawl_vars, all_ws_image_lists,
                    download_image_list, downloader_max, downloaded_summary, joined,
                    insert_log, query_log >>

\* the second loop: join_handle.await, then save_image_in_db on Some(image)
JoinTask ==
    /\ pc = "verify"
    /\ joined < Len(join_handle_list)
    /\ LET task == join_handle_list[joined + 1]
       IN  /\ task.state = "finished"
           /\ IF task.output # <<>>
              THEN /\ db' = save_image_in_db(db, task.output[1])
                   /\ insert_log' = insert_log \cup
                          { [ handle |-> joined + 1, cloud_image |-> task.output[1] ] }
              ELSE UNCHANGED << db, insert_log >>
    /\ joined' = joined + 1
    /\ UNCHANGED << config, unwritable, db_at_start, run, pc, crawl_vars, all_ws_image_lists,
                    download_image_list, downloader_max, downloaded_summary,
                    join_handle_list, query_log >>

\* verify_downloaded_file and main() return
Finish ==
    /\ pc = "verify"
    /\ joined = Len(join_handle_list)
    /\ pc' = "done"
    /\ UNCHANGED << config, db, db_at_start, run, crawl_vars, later_vars, query_log >>

\* the tool is run again, on the same configuration, upstream and database
NextRun ==
    /\ pc = "done"
    /\ run < MaxRuns
    /\ run' = run + 1
    /\ db_at_start' = TableRows(db)
    /\ saved_before' = saved_before \cup { RowOf(e.cloud_image) : e \in insert_log }
    /\ pc' = "crawl"
    /\ site_future' = [s \in SiteIds |-> "queued"]
    /\ url_list' = [s \in SiteIds |-> <<>>]
    /\ leaf_future' = [s \in SiteIds |-> <<>>]
    /\ leaf_lists' = [s \in SiteIds |-> <<>>]
    /\ all_ws_image_lists' = <<>>
    /\ download_image_list' = <<>>
    /\ downloader_max' = 0
    /\ downloaded_summary' = <<>>
    /\ join_handle_list' = <<>>
    /\ joined' = 0
    /\ query_log' = {}
    /\ insert_log' = {}
    /\ unwritable' = {}
    /\ UNCHANGED << concurrent_downloads, verify_skipped, sites, upstream, db, call >>

Next ==
    \/ \E s \in SiteIds : StartSite(s)
    \/ \E s \in SiteIds : GenerateUrlList(s)
    \/ \E s \in SiteIds, i \in 1..MaxLeafUrls : StartLeaf(s, i)
    \/ \E s \in SiteIds, i \in 1..MaxLeafUrls : FinishLeaf(s, i)
    \/ \E s \in SiteIds : FinishSite(s)
    \/ Collect
    \/ DownloadImages
    \/ DownloadOne
    \/ SpawnVerifications
    \/ \E k \in 1..MaxLeafUrls : RunTask(k)
    \/ JoinTask
    \/ Finish
    \/ NextRun

Spec == Init /\ [][Next]_vars

(***************************************************************************)
(* The crawl alone, over every listing and over databases left by earlier  *)
(* runs: the behaviours of add_images_from_url_to_images_list.             *)
(***************************************************************************)
\* the rows earlier runs may have saved for the images of the listings
KnownRows ==
    << RowOf(CloudImage(<<>>, Sha256(HashB), <<"foo-20240215", "qcow2">>,
                        MkDate(2024, 2, 15))),
       RowOf(CloudImage(<<>>, NoSum, <<"foo", "qcow2">>, MkDate(2025, 7, 10))) >>

SelectorInit ==
    /\ concurrent_downloads \in 1..MaxConcurrency
    /\ verify_skipped = FALSE
    /\ \E versions \in [SiteIds -> 1..MaxVersions] :
          /\ SumTo(versions, NSites) <= MaxLeafUrls
          /\ sites = [s \in SiteIds |-> WebSite(s, versions[s])]
    /\ upstream \in [UNION { { <<sites[s].base_url, sites[s].version_list[v]>> :
                                v \in 1..Len(sites[s].version_list) } : s \in SiteIds }
                     -> AllListingNames]
    /\ db \in { SubSeq(KnownRows, first, last) :
                    first \in 1..Len(KnownRows), last \in 0..Len(KnownRows) }
    /\ db_at_start = TableRows(db)
    /\ saved_before = {}
    /\ run = 1
    /\ call = NoCall
    /\ RunStart

SelectorNext ==
    \/ \E s \in SiteIds : StartSite(s)
    \/ \E s \in SiteIds : GenerateUrlList(s)
    \/ \E s \in SiteIds, i \in 1..MaxLeafUrls : StartLeaf(s, i)
    \/ \E s \in SiteIds, i \in 1..MaxLeafUrls : FinishLeaf(s, i)
    \/ \E s \in SiteIds : FinishSite(s)
    \/ Collect

SelectorSpec == SelectorInit /\ [][SelectorNext]_vars

(***************************************************************************)
(* The functions of the crate called on their own, on arguments the crawl  *)
(* of the model mirrors does not produce.                                  *)
(***************************************************************************)
\* the mirror the resolver is called on: a page of sub-directories for
\* each version, the same under {version}/cloud, nothing under {version}/server
CallBaseUrl == "https://mirror3.example"

\* the mirror the selector is called on, and the page of each of its leaves
CallLeafBaseUrl == "https://mirror4.example"

CallLeafVersions == {"41", "42", "43", "44", "45"}

CallLeafPage(version) ==
    CASE version = "41" -> "cleanse"
      [] version = "42" -> "rebuilt"
      [] version = "43" -> "nosums"
      [] version = "44" -> "noline"
      [] OTHER -> "nofile"

CallVersions == {"41", "42", "43", "44"}

CallVersionPage(version) ==
    CASE version = "41" -> "dated"
      [] version = "42" -> "down"
      [] version = "43" -> "suffixed"
      [] OTHER -> "numeric"

\* the state of a run that has not started; the mirror of the first site
\* serves one checksum file, the others one per image
CallInit ==
    /\ concurrent_downloads = 1
    /\ verify_skipped = FALSE
    /\ sites = [s \in SiteIds |-> WebSite(s, 1)]
    /\ upstream = [url \in { <<sites[s].base_url, sites[s].version_list[1]>> : s \in SiteIds }
                     |-> IF url[1] = Mirror(1) THEN "aggregate" ELSE "plainfile"]
                  @@ [url \in { <<CallBaseUrl, version>> : version \in CallVersions }
                             \cup { <<CallBaseUrl, version, "cloud">> : version \in CallVersions }
                     |-> CallVersionPage(url[2])]
                  @@ [url \in { <<CallLeafBaseUrl, version>> : version \in CallLeafVersions }
                     |-> CallLeafPage(url[2])]
    /\ db = <<>>
    /\ db_at_start = {}
    /\ saved_before = {}
    /\ run = 1
    /\ call = NoCall
    /\ RunStart

call_vars == << concurrent_downloads, verify_skipped, sites, upstream, saved_before,
               unwritable, db, db_at_start, run, pc, crawl_vars, all_ws_image_lists,
               download_image_list, downloader_max, downloaded_summary,
               join_handle_list, joined, query_log, insert_log >>

\* image names: without '.', with one, with two
CallNames == { <<"foo">>, <<"foo", "qcow2">>, <<"foo", "tar", "gz">>,
               <<"foo-20240215", "qcow2">> }

CallDates == { MkDate(2025, 7, 10), MkDate(2024, 2, 15), MkDate(2024, 12, 1) }

\* get_filename_destination(image_name, file_destination, normalize, image_date)
CallGetFilenameDestination ==
    /\ call = NoCall
    /\ \E image_name \in CallNames, s \in SiteIds, normalize \in BOOLEAN,
          image_date \in CallDates :
          call' = [ op |-> "get_filename_destination",
                    image_name |-> image_name,
                    file_destination |-> Destination(s),
                    normalize |-> normalize,
                    image_date |-> image_date,
                    result |-> get_filename_destination(image_name, Destination(s),
                                   normalize, image_date) ]
    /\ UNCHANGED call_vars

\* lines of a checksum file: empty, comment, with and without a digest
CallLines == { <<>>,
               <<"#", "foo.qcow2">>,
               <<"foo.qcow2">>,
               <<HashA, "foo.qcow2">>,
               <<HashB, "foo.qcow2">>,
               <<HashA, "bar.qcow2">> }

MaxLines == 3

\* Option<String>: None, or Some(buffer) of up to MaxLines lines
CallBuffers ==
    { <<>> } \cup { <<buffer>> : buffer \in UNION { [1..n -> CallLines] : n \in 0..MaxLines } }

CallFilenames == { <<"SHA256SUMS">>, <<"CHECKSUM">> }

\* words of a line given to build_checksums_from_line
CallWords == { "SHA256", "SHA512", "foo.qcow2", HashA, HashB, HashC }

MaxWords == 3

CallLineFilenames == { <<"SHA256SUMS">>, <<"SHA512SUMS">>, <<"CHECKSUM">> }

\* CheckSums::build_checksums_from_line(line, filename)
CallBuildChecksumsFromLine ==
    /\ call = NoCall
    /\ \E line \in UNION { [1..n -> CallWords] : n \in 0..MaxWords },
          filename \in CallLineFilenames :
          call' = [ op |-> "build_checksums_from_line",
                    line |-> line,
                    filename |-> filename,
                    result |-> build_checksums_from_line(line, filename) ]
    /\ UNCHANGED call_vars

\* CheckSums::get_image_checksum_from_checksums_buffer(name, checksums, filename)
CallGetImageChecksum ==
    /\ call = NoCall
    /\ \E name \in {"foo.qcow2", "bar.qcow2"}, checksums \in CallBuffers,
          filename \in CallFilenames :
          call' = [ op |-> "get_image_checksum_from_checksums_buffer",
                    name |-> name,
                    checksums |-> checksums,
                    filename |-> filename,
                    result |-> get_image_checksum_from_checksums_buffer(name, checksums,
                                   filename) ]
    /\ UNCHANGED call_vars

\* an Option<String>: <<>> is None, <<path>> is Some(path)
CallDbPaths == { <<>>, <<"/var/lib/cid">>, <<"~/.cache/cid">>, <<"/srv/cid">> }

\* BaseDirs::cache_dir()
CacheDir == "/home/user/.cache"

\* the value of the file wins over the command line
from_config_file_first(cli_db_path, file_db_path, env_db_path) ==
    IF file_db_path # <<>> THEN file_db_path
    ELSE IF env_db_path # <<>> THEN env_db_path
    ELSE cli_db_path

\* settings.rs Settings::from_config, the db_path of the Settings returned:
\* the sources of the Config are the file, then the CID_ environment (a
\* later source overrides an earlier one), and the command line has the
\* last word
from_config(cli_db_path, file_db_path, env_db_path) ==
    LET deserialized == IF env_db_path # <<>> THEN env_db_path ELSE file_db_path
    IN  IF cli_db_path # <<>> THEN cli_db_path ELSE deserialized

\* bin/cid.rs main: the file given to DbImageHistory::open
DbFile(settings_db_path) ==
    LET db_dir == IF settings_db_path # <<>> THEN settings_db_path[1] ELSE CacheDir
    IN  db_dir \o "/" \o "cid.sqlite"

\* Settings::from_config(&cli) and the opening of the store in main
CallFromConfig ==
    /\ call = NoCall
    /\ \E cli_db_path \in CallDbPaths, file_db_path \in CallDbPaths,
          env_db_path \in CallDbPaths :
          call' = [ op |-> "from_config",
                    cli_db_path |-> cli_db_path,
                    file_db_path |-> file_db_path,
                    env_db_path |-> env_db_path,
                    db_path |-> from_config(cli_db_path, file_db_path, env_db_path),
                    db_file |-> DbFile(from_config(cli_db_path, file_db_path,
                                                   env_db_path)) ]
    /\ UNCHANGED call_vars

\* the text of the <a> elements of a page
CallLinkNames == { <<"foo-20240215", "qcow2">>,
                   <<"foo-20240215", "qcow2", "SHA256SUM">>,
                   <<"foo-20240215", "qcow2", "MD5SUM">>,
                   <<"SHA256SUMS">>,
                   <<"SHA512SUMS">>,
                   <<"CHECKSUM">>,
                   <<"Fedora-Cloud-41-x86_64-CHECKSUM">> }

MaxLinks == 3

\* the pages of up to MaxLinks <a> elements
CallDocuments ==
    UNION { [1..n -> { Link(inner, MkDate(2024, 2, 15)) : inner \in CallLinkNames }] :
              n \in 0..MaxLinks }

\* guess_checksum_type on the page of a leaf url, and the images that
\* add_images_from_url_to_images_list builds from that page
CallGuessChecksumType ==
    /\ call = NoCall
    /\ \E s \in SiteIds, document \in CallDocuments :
          call' = [ op |-> "guess_checksum_type",
                    url |-> <<sites[s].base_url, sites[s].version_list[1]>>,
                    document |-> document,
                    result |-> guess_checksum_type(document),
                    images |-> ImagesOfDocument(sites[s],
                                   <<sites[s].base_url, sites[s].version_list[1]>>,
                                   document) ]
    /\ UNCHANGED call_vars

\* sites with and without image_name_cleanse
CallSelectorSites ==
    { [ name |-> "site4",
        version_list |-> <<version>>,
        base_url |-> CallLeafBaseUrl,
        after_version_url |-> <<>>,
        image_name_filter |-> "\\.qcow2$",
        image_name_cleanse |-> image_name_cleanse,
        destination |-> Destination(1),
        normalize |-> FALSE ] :
        version \in CallLeafVersions,
        image_name_cleanse \in { <<>>, << <<"latest">> >>, << <<"beta", "latest">> >> } }

\* WebSite::add_images_from_url_to_images_list on the first leaf url of a
\* site, with the requests it makes
CallAddImagesFromUrl ==
    /\ call = NoCall
    /\ \E website \in { sites[s] : s \in SiteIds } \cup CallSelectorSites,
          query_error \in QueryErrors :
          LET url == <<website.base_url, website.version_list[1]>>
          IN  call' = [ op |-> "add_images_from_url_to_images_list",
                        website |-> website,
                        url |-> url,
                        query_error |-> query_error,
                        requests |-> RequestsOfUrl(website, url),
                        result |-> add_images_from_url_to_images_list(website, url, db,
                                       query_error) ]
    /\ UNCHANGED call_vars

MaxVersionList == 2

\* the sites generate_url_list is called on
CallWebSites ==
    { [ name |-> "site3",
        version_list |-> version_list,
        base_url |-> CallBaseUrl,
        after_version_url |-> after_version_url,
        image_name_filter |-> "\\.qcow2$",
        image_name_cleanse |-> <<>>,
        destination |-> Destination(1),
        normalize |-> FALSE ] :
        version_list \in UNION { [1..n -> CallVersions] : n \in 1..MaxVersionList },
        after_version_url \in { <<>>, << <<"cloud">> >>, << <<"cloud", "server">> >> } }

\* WebSite::generate_url_list
CallGenerateUrlList ==
    /\ call = NoCall
    /\ \E website \in CallWebSites :
          call' = [ op |-> "generate_url_list",
                    website |-> website,
                    result |-> generate_url_list(website) ]
    /\ UNCHANGED call_vars

\* the function called has returned
CallReturn ==
    /\ call # NoCall
    /\ call' = NoCall
    /\ UNCHANGED call_vars

CallNext ==
    \/ CallGetFilenameDestination
    \/ CallGetImageChecksum
    \/ CallBuildChecksumsFromLine
    \/ CallFromConfig
    \/ CallGuessChecksumType
    \/ CallAddImagesFromUrl
    \/ CallGenerateUrlList
    \/ CallReturn

CallSpec == CallInit /\ [][CallNext]_vars


(***************************************************************************)
(* Properties.                                                             *)
(***************************************************************************)
Range(seq) == { seq[i] : i \in 1..Len(seq) }

\* the images of the collected lists, each with its site
SelectedImages ==
    UNION { { [ website |-> all_ws_image_lists[w].website,
                cloud_image |-> all_ws_image_lists[w].images_list[i] ] :
              i \in 1..Len(all_ws_image_lists[w].images_list) } :
            w \in 1..Len(all_ws_image_lists) }

\* the Download item download_images builds for a selected image
DownloadOf(e) ==
    Download(e.cloud_image.url,
        get_filename_destination(e.cloud_image.name, sites[e.website].destination,
            sites[e.website].normalize, e.cloud_image.date))

\* the handles of the tasks spawned for a selected image
TasksOf(e) ==
    { k \in 1..Len(join_handle_list) :
        /\ join_handle_list[k].website = e.website
        /\ join_handle_list[k].cloud_image = e.cloud_image }

Submitted(cloud_image) == \E d \in Range(download_image_list) : d.url = cloud_image.url

VerifierStarted == pc = "verify" \/ (pc = "done" /\ downloader_max # 0)

CrawlComplete ==
    \A s \in SiteIds :
        /\ site_future[s] = "complete"
        /\ Len(leaf_future[s]) = Len(url_list[s])
        /\ \A i \in 1..Len(leaf_future[s]) : leaf_future[s][i] = "complete"

\* C1: an image whose checksum is CheckSums::None and that reaches the
\* Verifier (a task is spawned for it) is never handed to save_image_in_db.
C1_NoInsertForNoneChecksum ==
    \A k \in 1..Len(join_handle_list) :
        join_handle_list[k].cloud_image.checksum = NoSum =>
            \A e \in insert_log : e.handle # k

\* C2: every row added during a run belongs to an image whose task computed
\* the digest of the destination file and found it equal to the checksum.
C2_InsertOnlyAfterDigestMatch ==
    \A e \in insert_log : join_handle_list[e.handle].verified = <<"Ok", TRUE>>

C5_DistinctDestinations ==
    \A i, j \in 1..Len(download_image_list) :
        i # j => download_image_list[i].filename # download_image_list[j].filename

\* C6: the selector returns at most one CloudImage for a leaf url.
C6_AtMostOnePerLeaf ==
    \A s \in SiteIds : \A i \in 1..Len(leaf_lists[s]) : Len(leaf_lists[s][i]) <= 1

\* the three arms of guess_checksum_type each select one image, two of them
\* out of two names that match the filter
C6_Witness ==
    \A listing \in {"aggregate", "perfile", "bare"} :
        \E s \in SiteIds : \E i \in 1..Len(leaf_lists[s]) :
            /\ leaf_future[s][i] = "complete"
            /\ upstream[url_list[s][i]] = listing
            /\ Len(leaf_lists[s][i]) = 1
            /\ listing = "perfile" => leaf_lists[s][i][1].checksum = Sha256(HashB)

\* C7: a task is spawned for a selected image exactly when the Summary of
\* its Download item is Success, or Skipped with verify_skipped set; an image
\* without a task has no verification result and no insert.
C7_ScheduledByStatus ==
    VerifierStarted =>
        \A e \in SelectedImages :
            LET statuses == { sm.status : sm \in { x \in Range(downloaded_summary) :
                                                    x.download = DownloadOf(e) } }
                wanted == \/ "Success" \in statuses
                          \/ "Skipped" \in statuses /\ verify_skipped
            IN  /\ (TasksOf(e) # {}) <=> wanted
                /\ TasksOf(e) = {} =>
                      \A x \in insert_log : x.cloud_image # e.cloud_image

C7_Witness ==
    /\ pc = "verify"
    /\ ~verify_skipped
    /\ { sm.status : sm \in Range(downloaded_summary) } = {"Success", "Skipped", "Fail"}
    /\ Len(join_handle_list) = 1

\* C8: no Download item exists before every leaf url of every site is
\* resolved, and no task is spawned before every Download item has its Summary.
C8_PhasesOrdered ==
    /\ (pc # "crawl" \/ download_image_list # <<>>) => CrawlComplete
    /\ (pc \in {"verify"} \/ join_handle_list # <<>>) =>
          /\ CrawlComplete
          /\ Len(downloaded_summary) = Len(download_image_list)

C8_Witness ==
    /\ pc = "verify"
    /\ Len(download_image_list) >= 2
    /\ join_handle_list # <<>>

\* C9: no two tasks of a run are spawned for the same image of the lists.
C9_VerifiedAtMostOnce ==
    /\ \A k1, k2 \in 1..Len(join_handle_list) :
          k1 # k2 =>
              \/ join_handle_list[k1].website # join_handle_list[k2].website
              \/ join_handle_list[k1].cloud_image # join_handle_list[k2].cloud_image
    /\ \A e \in SelectedImages : Cardinality(TasksOf(e)) <= 1

C9_Witness ==
    /\ pc = "verify"
    /\ Len(join_handle_list) >= 2
    /\ \A k \in 1..Len(join_handle_list) : join_handle_list[k].state = "finished"
    /\ join_handle_list[1].cloud_image.name = join_handle_list[2].cloud_image.name

\* C10: while crawling at most concurrent_downloads site futures and, in
\* every site, at most concurrent_downloads leaf futures are in flight; the
\* Downloader is built with at most concurrent_downloads parallel downloads.
C10_BoundedFanOut ==
    /\ InFlight(SiteFutures) <= concurrent_downloads
    /\ \A s \in SiteIds : InFlight(leaf_future[s]) <= concurrent_downloads
    /\ downloader_max <= concurrent_downloads

C10_Witness ==
    /\ pc = "crawl"
    /\ concurrent_downloads < NSites + 1
    /\ InFlight(SiteFutures) = Min(concurrent_downloads, NSites)
    /\ InFlight(SiteFutures) >= 2
    /\ \E s \in SiteIds : InFlight(leaf_future[s]) >= 2

\* the leaf lists that hold the image
LeavesHolding(cloud_image) ==
    { <<s, i>> \in SiteIds \X (1..MaxLeafUrls) :
        /\ i <= Len(leaf_lists[s])
        /\ leaf_lists[s][i] = <<cloud_image>> }

\* C11: is_in_db answers true exactly when the row of the image is in the
\* table and the query does not fail; when prepare, query or the row fetch
\* fails the answer is false; the table is not changed by the queries and an
\* image answered false is in the list of its leaf url, one answered true is not.
C11_ExistsAnswer ==
    /\ pc = "crawl" => TableRows(db) = db_at_start
    /\ \A q \in query_log :
          /\ q.answer = (q.present /\ ~q.failed)
          /\ is_in_db(db, q.cloud_image, "none") = (RowOf(q.cloud_image) \in TableRows(db))
          /\ \A e \in QueryErrors \ {"none"} : ~is_in_db(db, q.cloud_image, e)
          /\ q.answer <=> LeavesHolding(q.cloud_image) = {}

C11_Witness ==
    /\ pc = "crawl"
    /\ \E q \in query_log : q.present /\ q.answer /\ LeavesHolding(q.cloud_image) = {}
    /\ \E q \in query_log : q.present /\ q.failed /\ LeavesHolding(q.cloud_image) # {}
    /\ \E q \in query_log : ~q.present /\ ~q.answer

\* C12: the table holds every (name, checksum, date) row at most once; a
\* save_image_in_db of a row that is there leaves the table as it is, and
\* every row save_image_in_db was called with in the run is in the table:
\* the table is the rows of the start of the run and those, once each.
C12_RowsUnique ==
    LET saved == { RowOf(e.cloud_image) : e \in insert_log }
    IN  /\ \A i, j \in 1..Len(db) : i # j => db[i] # db[j]
        /\ TableRows(db) = db_at_start \cup saved
        /\ Len(db) = Cardinality(db_at_start \cup saved)

\* a run that ended after two calls with the same row and a later call
\* with another row
C12_Witness ==
    /\ pc = "done"
    /\ \E e1, e2, e3 \in insert_log :
          /\ e1.handle < e2.handle /\ e2.handle < e3.handle
          /\ RowOf(e1.cloud_image) = RowOf(e2.cloud_image)
          /\ RowOf(e3.cloud_image) # RowOf(e2.cloud_image)
          /\ Len(db) = 2

\* C13: a task whose verify_file ended with an error (the file cannot be
\* opened or read) or with a digest that differs makes no call of
\* save_image_in_db; the other tasks are still awaited, a task whose digest
\* matched is saved whatever the tasks before it returned, and the second
\* loop is never blocked.
C13_FailedVerificationNotRecorded ==
    /\ \A k \in 1..Len(join_handle_list) :
          join_handle_list[k].verified \in { <<"Err">>, <<"Ok", FALSE>> } =>
              \A e \in insert_log : e.handle # k
    /\ \A k \in 1..joined :
          join_handle_list[k].verified = <<"Ok", TRUE>> =>
              /\ \E e \in insert_log : e.handle = k
              /\ RowOf(join_handle_list[k].cloud_image) \in TableRows(db)
    /\ pc = "verify" => ENABLED (JoinTask \/ Finish \/ \E k \in 1..MaxLeafUrls : RunTask(k))
    /\ (pc = "done" /\ VerifierStarted) => joined = Len(join_handle_list)

C13_Witness ==
    /\ pc = "done"
    /\ Len(join_handle_list) = 3
    /\ join_handle_list[1].verified = <<"Ok", FALSE>>
    /\ join_handle_list[2].verified = <<"Err">>
    /\ join_handle_list[3].verified = <<"Ok", TRUE>>
    /\ { e.handle : e \in insert_log } = {3}

\* a future of the crawl can be started, can return, or a collect can return
CrawlCanStep ==
    \/ \E s \in SiteIds : BufferedCanStart(SiteFutures, s, concurrent_downloads)
    \/ \E s \in SiteIds : site_future[s] = "generate_url_list"
    \/ \E s \in SiteIds : \E i \in 1..Len(leaf_future[s]) :
          /\ site_future[s] = "resolving"
          /\ \/ BufferedCanStart(leaf_future[s], i, concurrent_downloads)
             \/ leaf_future[s][i] = "running"
    \/ \E s \in SiteIds : site_future[s] = "resolving" /\ CollectReady(leaf_future[s])
    \/ CollectReady(SiteFutures)

\* C14: a leaf url whose directory request fails yields nothing, an image
\* whose checksum file request fails is kept with CheckSums::None, and every
\* other leaf url still yields its image (unless the database holds it); the
\* crawl always goes on to its end, and the run goes on to the download as
\* soon as one leaf url of one site yielded an image.
C14_RequestFailuresContained ==
    /\ \A s \in SiteIds : \A i \in 1..Len(leaf_future[s]) :
          leaf_future[s][i] = "complete" =>
              \A listing \in { upstream[url_list[s][i]] },
                 candidates \in { CandidatesOfUrl(sites[s], url_list[s][i]) } :
                  /\ listing = "down" => candidates = <<>> /\ leaf_lists[s][i] = <<>>
                  /\ listing = "nosums" =>
                        candidates # <<>> /\ candidates[1].checksum = NoSum
                  /\ listing # "down" =>
                        /\ candidates # <<>>
                        /\ \/ leaf_lists[s][i] = candidates
                           \/ /\ leaf_lists[s][i] = <<>>
                              /\ \E q \in query_log :
                                    q.cloud_image = candidates[1] /\ q.answer
    /\ pc = "crawl" => CrawlCanStep
    /\ pc # "crawl" =>
          /\ CrawlComplete
          /\ pc = "download" <=>
                \E s \in SiteIds : \E i \in 1..Len(leaf_lists[s]) : leaf_lists[s][i] # <<>>

\* the crawl ended with one directory request failed, one checksum file
\* request failed and an image with its checksum from another leaf url
C14_Witness ==
    /\ pc = "download"
    /\ \E s \in SiteIds : \E i \in 1..Len(leaf_lists[s]) :
          upstream[url_list[s][i]] = "down" /\ leaf_lists[s][i] = <<>>
    /\ \E s \in SiteIds : \E i \in 1..Len(leaf_lists[s]) :
          /\ upstream[url_list[s][i]] = "nosums"
          /\ Len(leaf_lists[s][i]) = 1
          /\ leaf_lists[s][i][1].checksum = NoSum
    /\ \E s \in SiteIds : \E i \in 1..Len(leaf_lists[s]) :
          /\ Len(leaf_lists[s][i]) = 1
          /\ leaf_lists[s][i][1].checksum = Sha256(HashB)

\* C15: the destination file name is the image name when normalize is off;
\* when it is on, "-" and the date as YYYYMMDD are put before the last '.'
\* of the name, and at the end of a name that has no '.'.
C15_DestinationName ==
    call.op = "get_filename_destination" =>
        LET parts == call.image_name
            ymd == FormatYmd(call.image_date)
            expected ==
                IF ~call.normalize THEN NameStr(parts)
                ELSE IF Len(parts) >= 2
                THEN NameStr(SubSeq(parts, 1, Len(parts) - 1)) \o "-" \o ymd
                         \o "." \o parts[Len(parts)]
                ELSE NameStr(parts) \o "-" \o ymd
        IN  call.result = call.file_destination \o "/" \o expected

\* C16: the checksum of an image is decided by the first line of the buffer
\* that is not empty, does not start with '#' and holds the image name: the
\* lines before it are skipped and the lines after it are not looked at,
\* even when that line gives no checksum; without buffer or without such a
\* line the result is CheckSums::None.
C16_FirstMatchingLineDecides ==
    call.op = "get_image_checksum_from_checksums_buffer" =>
        IF call.checksums = <<>> THEN call.result = NoSum
        ELSE LET lines == call.checksums[1]
                 deciding == { i \in 1..Len(lines) :
                                 /\ lines[i] # <<>>
                                 /\ lines[i][1] # "#"
                                 /\ Contains(lines[i], call.name) }
             IN  IF deciding = {} THEN call.result = NoSum
                 ELSE \E i \in deciding :
                        /\ \A j \in deciding : i <= j
                        /\ call.result = build_checksums_from_line(lines[i], call.filename)

\* a comment with the name, then the name without digest, then the name
\* with a digest: the second line decides and there is no checksum
C16_Witness ==
    /\ call.op = "get_image_checksum_from_checksums_buffer"
    /\ call.name = "foo.qcow2"
    /\ call.filename = <<"SHA256SUMS">>
    /\ call.checksums = << << <<"#", "foo.qcow2">>, <<"foo.qcow2">>,
                             <<HashA, "foo.qcow2">> >> >>
    /\ call.result = NoSum

\* C17: SHA512 is looked for before SHA256.  When the name of the checksum
\* file holds SHA512SUMS or the line holds SHA512, the result is Sha512 of
\* the first run of 128 lowercase hex digits of the line, and None when the
\* line has none; otherwise, when the name holds SHA256SUMS or the line holds
\* SHA256, it is Sha256 of the first run of 64 hex digits; otherwise None.
C17_KindAndFirstRun ==
    call.op = "build_checksums_from_line" =>
        LET line == call.line
            runs(n) == { i \in 1..Len(line) : HexLen(line[i]) >= n }
            first(n) == CHOOSE i \in runs(n) : \A j \in runs(n) : i <= j
            digits(n) == IF HexLen(line[first(n)]) = n THEN line[first(n)]
                         ELSE HashCHigh
        IN  IF Contains(call.filename, "SHA512SUMS") \/ Contains(line, "SHA512")
            THEN IF runs(128) = {} THEN call.result = NoSum
                 ELSE call.result = Sha512(digits(128))
            ELSE IF Contains(call.filename, "SHA256SUMS") \/ Contains(line, "SHA256")
            THEN IF runs(64) = {} THEN call.result = NoSum
                 ELSE call.result = Sha256(digits(64))
            ELSE call.result = NoSum

\* C18 as stated: a DB_PATH of the command line replaces the db_path of the
\* configuration file; without it the value of the file is kept; when
\* neither gives one db_path is None and the store is opened under the
\* cache directory.
C18_CliThenFile ==
    call.op = "from_config" =>
        /\ call.cli_db_path # <<>> => call.db_path = call.cli_db_path
        /\ call.cli_db_path = <<>> => call.db_path = call.file_db_path
        /\ call.cli_db_path = <<>> /\ call.file_db_path = <<>> =>
              /\ call.db_path = <<>>
              /\ call.db_file = CacheDir \o "/cid.sqlite"

\* C18 amended: a DB_PATH of the command line replaces the db_path of the
\* configuration; without it the value of CID_DB_PATH is kept when the
\* environment has one, and the value of the file otherwise; when none of
\* the three gives one db_path is None and the store is opened under the
\* cache directory; otherwise it is opened under db_path.
C18_CliThenEnvironmentThenFile ==
    call.op = "from_config" =>
        /\ call.cli_db_path # <<>> => call.db_path = call.cli_db_path
        /\ call.cli_db_path = <<>> /\ call.env_db_path # <<>> =>
              call.db_path = call.env_db_path
        /\ call.cli_db_path = <<>> /\ call.env_db_path = <<>> =>
              call.db_path = call.file_db_path
        /\ call.cli_db_path = <<>> /\ call.env_db_path = <<>> /\ call.file_db_path = <<>> =>
              /\ call.db_path = <<>>
              /\ call.db_file = CacheDir \o "/cid.sqlite"
        /\ call.db_path # <<>> => call.db_file = call.db_path[1] \o "/cid.sqlite"

\* the command line and the file give different paths, the environment none
C18_Witness ==
    /\ call.op = "from_config"
    /\ call.cli_db_path = <<"/var/lib/cid">>
    /\ call.file_db_path = <<"~/.cache/cid">>
    /\ call.env_db_path = <<>>
    /\ call.db_file = "/var/lib/cid/cid.sqlite"

\* C19: the page of a leaf url is read in aggregate mode exactly when one
\* and only one of its names is the name of a file of all the checksums;
\* otherwise in per-file mode exactly when a name holds .SHA256SUM;
\* otherwise without checksum file, every image with CheckSums::None.  A
\* page with two files of all the checksums is not read in aggregate mode.
C19_ChecksumMode ==
    call.op = "guess_checksum_type" =>
        LET document == call.document
            aggregate == { i \in 1..Len(document) :
                             are_all_checksums_in_one_file(document[i].inner) }
            perfile == { i \in 1..Len(document) : ContainsDotSha256Sum(document[i].inner) }
        IN  /\ call.result.type = "OneFile" <=> Cardinality(aggregate) = 1
            /\ call.result.type = "OneFile" =>
                  \E i \in aggregate : call.result.filename = document[i].inner
            /\ call.result.type = "EveryFile" <=>
                  Cardinality(aggregate) # 1 /\ perfile # {}
            /\ call.result.type = "Unknown" <=>
                  Cardinality(aggregate) # 1 /\ perfile = {}
            /\ call.result.type = "Unknown" =>
                  \A k \in 1..Len(call.images) : call.images[k].checksum = NoSum
            /\ Cardinality(aggregate) >= 2 => call.result.type # "OneFile"

\* SHA256SUMS, which the mirror serves with the digest of the image, is
\* listed together with SHA512SUMS: no checksum file is read
C19_Witness ==
    /\ call.op = "guess_checksum_type"
    /\ call.url[1] = Mirror(1)
    /\ \E i, j, k \in 1..Len(call.document) :
          /\ call.document[i].inner = <<"SHA256SUMS">>
          /\ call.document[j].inner = <<"SHA512SUMS">>
          /\ call.document[k].inner = <<"foo-20240215", "qcow2">>
    /\ call.result.type = "Unknown"
    /\ Len(call.images) = 1
    /\ call.images[1].checksum = NoSum

\* C20: when the page lists foo.qcow2 and foo.qcow2.SHA256SUM and no file
\* of all the checksums, one request is made for {leaf}/foo.qcow2.SHA256SUM
\* and, when a line of its body holds a digest of 64 hex digits and the name
\* of the image, the image is returned with that digest as Sha256.
C20_PerFileChecksum ==
    /\ call.op = "add_images_from_url_to_images_list"
    /\ guess_checksum_type(get_body_from_url(call.url)[1]).type = "EveryFile"
    =>
        /\ Len(call.result) = 1
        /\ LET image == call.result[1]
               checksum_url == call.url \o <<NameStr(image.name) \o ".SHA256SUM">>
               body == get_body_from_url(checksum_url)
           IN  /\ Cardinality({ r \in 1..Len(call.requests) :
                                  call.requests[r] = checksum_url }) = 1
               /\ body # <<>> =>
                     \A i \in 1..Len(body[1]) : \A w \in 1..Len(body[1][i]) :
                        /\ HexLen(body[1][i][w]) = 64
                        /\ Contains(body[1][i], NameStr(image.name))
                        => image.checksum = Sha256(body[1][i][w])

\* C21: the resolver reads the sub-directories of {base_url}/{version},
\* goes into the dated directory selected there and only then appends each
\* after_version_url segment: a leaf url is base/version[/date][/after],
\* one per version and segment, one per version when there is no segment.
C21_DateBeforeAfterVersion ==
    call.op = "generate_url_list" =>
        LET website == call.website
            after == IF website.after_version_url = <<>> THEN <<>>
                     ELSE website.after_version_url[1]
            dated(version) ==
                { StripSlash(link.inner[1]) :
                    link \in { l \in Range(PageLinks(CallVersionPage(version))) :
                                 filter_dates(l.inner) } }
            form(url) ==
                /\ Len(url) >= 2
                /\ url[1] = website.base_url
                /\ \E v \in 1..Len(website.version_list) : url[2] = website.version_list[v]
                /\ LET rest == SubSeq(url, 3, Len(url))
                       tail == IF dated(url[2]) = {} THEN rest ELSE SubSeq(rest, 2, Len(rest))
                   IN  /\ dated(url[2]) # {} => rest # <<>> /\ rest[1] \in dated(url[2])
                       /\ IF after = <<>> THEN tail = <<>>
                          ELSE \E k \in 1..Len(after) : tail = <<after[k]>>
        IN  /\ \A i \in 1..Len(call.result) : form(call.result[i])
            /\ Len(call.result) =
                  Len(website.version_list) * (IF after = <<>> THEN 1 ELSE Len(after))

\* C22: among the sub-directories named YYYYMMDD or YYYYMMDD-NNNN the
\* resolver goes into one, the greatest by name, also when two names have
\* the same eight digits and differ by the -NNNN suffix; a directory with
\* another name, as latest/, is not chosen.
C22_GreatestDatedDirectory ==
    call.op = "generate_url_list" /\ call.website.after_version_url = <<>> =>
        LET website == call.website
            dated(version) ==
                { StripSlash(link.inner[1]) :
                    link \in { l \in Range(PageLinks(CallVersionPage(version))) :
                                 filter_dates(l.inner) } }
            greatest(names) ==
                CHOOSE d \in names : \A e \in names : LexRank(e) <= LexRank(d)
        IN  \A i \in 1..Len(website.version_list) :
              dated(website.version_list[i]) # {} =>
                 /\ i <= Len(call.result)
                 /\ call.result[i] = << website.base_url, website.version_list[i],
                                        greatest(dated(website.version_list[i])) >>

\* C23: a version whose page of sub-directories cannot be read gives no
\* leaf url, and the other versions of the site are still resolved.
C23_FailedListingGivesNoLeaf ==
    call.op = "generate_url_list" /\ call.website.after_version_url = <<>> =>
        LET website == call.website
            failed(version) == get_body_from_url(<<website.base_url, version>>) = <<>>
        IN  /\ \A i \in 1..Len(call.result) : ~failed(call.result[i][2])
            /\ \A v \in 1..Len(website.version_list) :
                  ~failed(website.version_list[v]) =>
                     \E i \in 1..Len(call.result) :
                        call.result[i][2] = website.version_list[v]

\* C24: a version url without dated sub-directory but with sub-directories
\* named by a number of two digits or more is resolved to the greatest of
\* them by name; the bare version url is used only when there is neither a
\* dated nor a numeric sub-directory.
C24_NumericDirectory ==
    call.op = "generate_url_list" /\ call.website.after_version_url = <<>> =>
        LET website == call.website
            links(version) == Range(PageLinks(CallVersionPage(version)))
            dated(version) == { l \in links(version) : filter_dates(l.inner) }
            numeric(version) ==
                { StripSlash(l.inner[1]) :
                    l \in { k \in links(version) : k.inner \in { <<"10/">>, <<"12/">> } } }
            greatest(names) ==
                CHOOSE d \in names : \A e \in names : LexRank(e) <= LexRank(d)
            bare(version) == << website.base_url, version >>
        IN  \A i \in 1..Len(call.result) :
              LET version == call.result[i][2]
              IN  /\ dated(version) = {} /\ numeric(version) # {} =>
                        call.result[i] = bare(version) \o << greatest(numeric(version)) >>
                  /\ call.result[i] = bare(version) /\ links(version) # {} =>
                        dated(version) = {} /\ numeric(version) = {}

\* C25: the name of every image returned matches the image_name_filter of
\* the site and none of its image_name_cleanse expressions; a name that
\* matches one of them is not selected even when it would be the last of
\* the sorted list.
C25_FilterAndCleanse ==
    call.op = "add_images_from_url_to_images_list" =>
        \A i \in 1..Len(call.result) :
            LET website == call.website
                name == call.result[i].name
            IN  /\ RegexIsMatch(website.image_name_filter, name)
                /\ website.image_name_cleanse # <<>> =>
                      \A c \in 1..Len(website.image_name_cleanse[1]) :
                         ~RegexIsMatch(website.image_name_cleanse[1][c], name)

\* the page lists foo.qcow2, foo-latest.qcow2 and latest.qcow2, which
\* sorts last; with the cleanse expression "latest" foo.qcow2 is returned
C25_Witness ==
    /\ call.op = "add_images_from_url_to_images_list"
    /\ call.url = <<CallLeafBaseUrl, "41">>
    /\ call.website.image_name_cleanse = << <<"latest">> >>
    /\ Len(call.result) = 1
    /\ call.result[1].name = <<"foo", "qcow2">>
    /\ call.result[1].checksum = Sha256(HashA)

\* C26: among the files of the page that pass the include and cleanse
\* filters the selector keeps the one that was modified last, whatever
\* date its name holds.
C26_GreatestModificationTime ==
    call.op = "add_images_from_url_to_images_list" =>
        LET passing == { l \in Range(PageLinks(upstream[call.url])) :
                           filter_element(call.website, l.inner) }
            stamp(date) == date.y * 10000 + date.mo * 100 + date.d
        IN  \A i \in 1..Len(call.result) :
               \A l \in passing : stamp(l.date) <= stamp(call.result[i].date)

\* C27: when the destination directory of an image cannot be created no
\* Download item is built for that image, and the items of the other
\* images of the batch are built.
C27_UnwritableDestinationDropped ==
    downloader_max # 0 =>
        \A e \in SelectedImages :
            IF sites[e.website].destination \in unwritable
            THEN \A d \in Range(download_image_list) : d.url # e.cloud_image.url
            ELSE UrlParses(e.cloud_image.url) =>
                    DownloadOf(e) \in Range(download_image_list)

\* one batch with an image whose directory cannot be created and an image
\* of another site that is submitted
C27_Witness ==
    /\ downloader_max # 0
    /\ \E e1 \in SelectedImages, e2 \in SelectedImages :
          /\ sites[e1.website].destination \in unwritable
          /\ sites[e2.website].destination \notin unwritable
          /\ ~Submitted(e1.cloud_image)
          /\ DownloadOf(e2) \in Range(download_image_list)

\* C28: in a run every query of the store comes before every insert.  The
\* queries are made while the images are selected, the inserts by the loop
\* that awaits the verification tasks, one task after the other: the
\* answer of a query depends only on the rows the store had when the run
\* started.
C28_QueriesBeforeInserts ==
    /\ pc = "crawl" => insert_log = {} /\ TableRows(db) = db_at_start
    /\ insert_log # {} => CrawlComplete /\ pc \in {"verify", "done"}
    /\ \A q \in query_log :
          q.answer = (RowOf(q.cloud_image) \in db_at_start /\ ~q.failed)
    /\ \A e \in insert_log :
          /\ e.handle <= joined
          /\ join_handle_list[e.handle].state = "finished"
    /\ TableRows(db) = db_at_start \cup { RowOf(e.cloud_image) : e \in insert_log }

\* a second run in which one image is answered present, another absent,
\* and two rows have been inserted
C28_Witness ==
    /\ run = 2
    /\ pc = "verify"
    /\ \E q \in query_log : q.answer
    /\ \E q \in query_log : ~q.answer /\ ~q.failed
    /\ insert_log # {}
    /\ TableRows(db) # db_at_start

\* C29: when the checksum file of a leaf, the file of all the checksums or
\* the .SHA256SUM file of the image, cannot be fetched or has no line for
\* the image chosen, the image is still returned, with CheckSums::None.
C29_MissingChecksumKeepsImage ==
    call.op = "add_images_from_url_to_images_list" =>
        LET page == PageLinks(upstream[call.url])
            passing == { l \in Range(page) : filter_element(call.website, l.inner) }
            guess == guess_checksum_type(page)
            checksum_url(image) ==
                IF guess.type = "OneFile" THEN call.url \o <<NameStr(guess.filename)>>
                ELSE call.url \o <<NameStr(image.name) \o ".SHA256SUM">>
            lines(image) == get_body_from_url(checksum_url(image))
            missing(image) ==
                \/ lines(image) = <<>>
                \/ \A i \in 1..Len(lines(image)[1]) :
                      \/ ~Contains(lines(image)[1][i], NameStr(image.name))
                      \/ lines(image)[1][i][1] = "#"
        IN  passing # {} =>
               /\ Len(call.result) = 1
               /\ guess.type # "Unknown" /\ missing(call.result[1]) =>
                     call.result[1].checksum = NoSum

\* the three cases: the file of all the checksums is not served, it has no
\* line for the image, the .SHA256SUM file of the image is not served
C29_Witness ==
    /\ call.op = "add_images_from_url_to_images_list"
    /\ upstream[call.url] \in {"nosums", "noline", "nofile"}
    /\ Len(call.result) = 1
    /\ call.result[1].checksum = NoSum
    /\ Len(call.requests) = 2

\* C30: an image for which no Download item was submitted, because its
\* destination directory could not be created or its url did not parse,
\* has no Summary with both its destination file name and its url: no
\* verification task is spawned for it and it is not inserted in that run.
C30_UnsubmittedNeverVerified ==
    VerifierStarted =>
        \A e \in SelectedImages :
            ~Submitted(e.cloud_image) =>
                /\ \/ sites[e.website].destination \in unwritable
                   \/ ~UrlParses(e.cloud_image.url)
                /\ \A i \in 1..Len(downloaded_summary) :
                      ~ /\ downloaded_summary[i].download.filename = DownloadOf(e).filename
                        /\ downloaded_summary[i].download.url = e.cloud_image.url
                /\ TasksOf(e) = {}
                /\ \A x \in insert_log : x.cloud_image # e.cloud_image

\* the image of one site was not submitted, the image of another site was
\* downloaded, verified and inserted
C30_Witness ==
    /\ VerifierStarted
    /\ insert_log # {}
    /\ \E e \in SelectedImages :
          /\ ~Submitted(e.cloud_image)
          /\ sites[e.website].destination \in unwritable
    /\ \E i \in 1..Len(downloaded_summary) : downloaded_summary[i].status = "Success"

====
